---- MODULE Spec2Model ----
(***************************************************************************)
(* Sentence-mixing synthesizer: the text-to-audio rendering pipelines of   *)
(* src/main.py (plain concatenation) and src/main_CrossFading.py           *)
(* (fallback substitution + crossfading), and their playback workers.      *)
(*                                                                         *)
(* Audio data is a sequence of chunks.  A chunk [src, lo, hi, mix] stands   *)
(* for the bytes lo .. hi-1 of the buffer named src (a normalized clip, or  *)
(* "silence"); a chunk with src = "mix" stands for hi bytes produced by     *)
(* audioop.add of the ramped tail mix[1] and the ramped head mix[2].        *)
(***************************************************************************)
EXTENDS Integers, Sequences, FiniteSets, TLC

VARIABLES
    pipeline,      \* "plain" (main.py) or "crossfade" (main_CrossFading.py)
    text,          \* str_input, a sequence of characters
    bank,          \* the voice bank: the files under character_folder
    pc,            \* position inside render_to_file
    tokens,        \* re.findall result
    tk,            \* index of the next token of the for loop
    raw_segments,  \* raw_segments / audio_segments
    i,             \* index of the crossfade pass
    final_audio,   \* final_audio
    outcome,       \* how the call ended
    out_file,      \* the file at output_path: <<"absent">> or <<"wav", data>>
    input_segments,\* history: raw_segments as the crossfade pass received it
    table,         \* fallback table used by a phoneme resolution (SpecResolve)
    rlabel,        \* label being resolved (SpecResolve)
    result,        \* outcome of the resolution (SpecResolve)
    gui,           \* the GUI thread: "idle", "rendering" or "written"
    audio,         \* per speak request: its rendered audio, in chunks of CHUNK frames
    wpc,           \* per speak request: position of its play() worker thread
    temp_path,     \* inode behind "temp_playback.wav", 0 when no such file
    inodes,        \* per inode: [header, declared, frames], the bytes on disk
    wf,            \* per worker: [ino, nbytes, pos, buf, raw] of its open wave file
    rdata,         \* per worker: data, the frames last read
    played,        \* per worker: what it wrote to the output stream
    pa,            \* per worker: its PyAudio instance
    stream,        \* per worker: its output stream
    playback_list, \* main.py: the list handed to _play_sequence
    item           \* main.py: index of the next item of playback_list

rendervars == <<pipeline, text, bank, pc, tokens, tk, raw_segments, i, final_audio,
                outcome, out_file, input_segments, table, rlabel, result>>
speakvars == <<gui, audio, wpc, temp_path, inodes, wf, rdata, played, pa, stream>>
playvars == <<playback_list, item>>
vars == <<rendervars, speakvars, playvars>>

(***************************************************************************)
(* Bounds of the model.                                                    *)
(***************************************************************************)
MaxTextLen == 3
MaxDepth == 6
MaxSegs == 4
NReq == 2
MaxChunks == 2
MaxEHFrames == 5

(***************************************************************************)
(* Program constants.                                                      *)
(***************************************************************************)
target_ch == 1
target_w == 2
target_r == 44100
CHUNK == 1024
\* Durations are kept in milliseconds: 0.01 s, 0.05 s, 0.25 s, 0.5 s.
word_pause_ms == 10
fade_duration_ms == 50
comma_pause_ms == 250
terminal_pause_ms == 500
period_pause_ms == 300

Min(a, b) == IF a <= b THEN a ELSE b

(***************************************************************************)
(* Byte buffers as chunk sequences.                                        *)
(***************************************************************************)
Chunk(src, lo, hi) == [src |-> src, lo |-> lo, hi |-> hi, mix |-> <<>>]

RECURSIVE DataLen(_)
DataLen(d) == IF d = <<>> THEN 0 ELSE (Head(d).hi - Head(d).lo) + DataLen(Tail(d))

\* d[:n] for 0 <= n
RECURSIVE TakeBytes(_, _)
TakeBytes(d, n) ==
    IF n <= 0 \/ d = <<>> THEN <<>>
    ELSE LET c == Head(d)
             l == c.hi - c.lo
         IN  IF l = 0 THEN TakeBytes(Tail(d), n)
             ELSE IF l <= n THEN <<c>> \o TakeBytes(Tail(d), n - l)
             ELSE <<[c EXCEPT !.hi = c.lo + n]>>

\* d[n:] for 0 <= n
RECURSIVE DropBytes(_, _)
DropBytes(d, n) ==
    IF d = <<>> THEN <<>>
    ELSE LET c == Head(d)
             l == c.hi - c.lo
         IN  IF l = 0 THEN DropBytes(Tail(d), n)
             ELSE IF n <= 0 THEN d
             ELSE IF l <= n THEN DropBytes(Tail(d), n - l)
             ELSE <<[c EXCEPT !.lo = c.lo + n]>> \o Tail(d)

\* b'\x00' * n
Silence(n) == IF n <= 0 THEN <<>> ELSE <<Chunk("silence", 0, n)>>

\* faulty variant: the sample width left out of the pause length
PauseBytes_no_width(ms) == (target_r * ms * target_ch) \div 1000

\* int(target_r * dur * target_w * target_ch), dur given in milliseconds
PauseBytes(ms) == (target_r * ms * target_w * target_ch) \div 1000

\* _generate_silence: silence_sample * int(frame_rate * duration_sec) * channels
generate_silence(ms, frame_rate, sample_width, channels) ==
    Silence(sample_width * ((frame_rate * ms) \div 1000) * channels)

(***************************************************************************)
(* Tokenizer: re.findall(r"[\w']+|[.,!?;]", str_input).                    *)
(* A token is the sequence of its characters.                              *)
(***************************************************************************)
WordChars == {"h", "I", "'"}
TerminalChars == {".", "!", "?"}
CommaChars == {",", ";"}
PunctChars == TerminalChars \cup CommaChars
Alphabet == {"h", "I", "'", ".", "!", "?", ",", ";", " "}

\* str.upper() on one character
UpperChar(c) == IF c = "h" THEN "H" ELSE c
Upper(w) == [k \in 1..Len(w) |-> UpperChar(w[k])]

\* length of the longest run of word characters at the start of s
RECURSIVE WordRun(_)
WordRun(s) == IF s = <<>> \/ Head(s) \notin WordChars THEN 0 ELSE 1 + WordRun(Tail(s))

RECURSIVE Tokenize(_)
Tokenize(s) ==
    IF s = <<>> THEN <<>>
    ELSE LET n == WordRun(s)
         IN  IF n > 0 THEN <<SubSeq(s, 1, n)>> \o Tokenize(SubSeq(s, n + 1, Len(s)))
             ELSE IF Head(s) \in PunctChars THEN <<<<Head(s)>>>> \o Tokenize(Tail(s))
             ELSE Tokenize(Tail(s))

IsPunct(token) == Len(token) = 1 /\ token[1] \in PunctChars
IsTerminal(token) == Len(token) = 1 /\ token[1] \in TerminalChars
IsComma(token) == Len(token) = 1 /\ token[1] \in CommaChars

(***************************************************************************)
(* Voice bank.  A clip is a WAV file: [id, ch, w, r, n, ok] = name,         *)
(* channels, sample width, frame rate, frame count, and whether wave.open   *)
(* can parse it.  bank.words holds the files of <root>/words, bank.phonemes *)
(* those of <root>; a file is [stem, variant, clip] for <stem>.wav          *)
(* (variant 0) or <stem>_<variant>.wav.  Word stems are character           *)
(* sequences; phoneme stems are label strings, kept in upper case.          *)
(***************************************************************************)
Clip(id, ch, w, r, n, ok) == [id |-> id, ch |-> ch, w |-> w, r |-> r, n |-> n, ok |-> ok]
File(stem, variant, clip) == [stem |-> stem, variant |-> variant, clip |-> clip]

\* _pick_random_variant: the candidates random.choice draws from
\* (empty when the directory is absent or nothing matches). The pattern
\* ^base(_\d+)?\.wav$ is matched ignoring case.
pick_random_variant(files, base) == {f.clip : f \in {g \in files : g.stem = base}}
pick_word_variant(files, token) ==
    {f.clip : f \in {g \in files : Upper(g.stem) = Upper(token)}}

\* audioop.ratecv with state None and weights (1, 0): frames produced from n
\* frames; the rates are first divided by their gcd, which the quotient
\* below does not depend on.
RatecvFrames(n, inrate, outrate) ==
    IF n = 0 THEN 0 ELSE (((n - 1) * outrate) \div inrate) + 1

\* length in bytes of the output of _normalize_wav for a parseable clip
NormalizedLen(clip, t_w, t_r) ==
    LET frames == IF clip.r # t_r THEN RatecvFrames(clip.n, clip.r, t_r) ELSE clip.n
    IN  frames * t_w

DataOutcome(d) == [st |-> "data", data |-> d]
NoneOutcome == [st |-> "none", data |-> <<>>]
Raised(e) == [st |-> e, data |-> <<>>]
IsError(o) == o.st \notin {"data", "none"}
\* Python truthiness of bytes-or-None
Truthy(o) == o.st = "data" /\ DataLen(o.data) > 0

\* _normalize_wav: wave.open raises wave.Error on a file that is no WAV
\* container; otherwise the frames converted to mono, t_w bytes, t_r Hz.
normalize_wav(clip, t_ch, t_w, t_r) ==
    IF ~clip.ok THEN Raised("wave.Error")
    ELSE LET n == NormalizedLen(clip, t_w, t_r)
         IN  DataOutcome(IF n = 0 THEN <<>> ELSE <<Chunk(clip.id, 0, n)>>)

(***************************************************************************)
(* Phoneme resolution (main_CrossFading.py).                               *)
(***************************************************************************)
PHONEME_MAPPING ==
    [p \in {"AW", "DH", "EY", "JH", "SH", "TH", "ZH", "AE", "AO", "ER", "IH", "OY", "UH"} |->
        CASE p = "AW" -> <<"AE", "OW">>
          [] p = "DH" -> <<"D">>
          [] p = "EY" -> <<"EH", "IY">>
          [] p = "JH" -> <<"CH">>
          [] p = "SH" -> <<"CH">>
          [] p = "TH" -> <<"D">>
          [] p = "ZH" -> <<"CH">>
          [] p = "AE" -> <<"AA">>
          [] p = "AO" -> <<"AA", "OW">>
          [] p = "ER" -> <<"AA">>
          [] p = "IH" -> <<"IY">>
          [] p = "OY" -> <<"OW", "Y", "IY">>
          [] p = "UH" -> <<"UW">>]

Vowels == {"AA", "AE", "AH", "AO", "AW", "AY", "EH", "ER", "EY", "IH", "IY", "OW", "OY", "UH", "UW"}
is_vowel(phoneme) == phoneme \in Vowels

\* data[frame_size:-frame_size]
TrimBothEnds(d, frame_size) ==
    TakeBytes(DropBytes(d, frame_size), DataLen(d) - 2 * frame_size)

\* faulty variant: trims only when what is left is longer than one frame
trim_guard_result_longer(d, frame_size) == DataLen(d) - 2 * frame_size > frame_size
\* line 54: len(data) > frame_size * 2
trim_guard(d, frame_size) == DataLen(d) > frame_size * 2

\* _get_phoneme_data: the set of outcomes the call can have (one per choice
\* of variants).  depth is the number of Python frames left before the
\* interpreter raises RecursionError.
RECURSIVE get_phoneme_data(_, _, _, _)
RECURSIVE CombineSubs(_, _, _, _, _)
get_phoneme_data(tbl, bk, phoneme, depth) ==
    IF depth = 0 THEN {Raised("RecursionError")}
    ELSE IF phoneme = "AH0" THEN
        {IF Truthy(o) /\ trim_guard(o.data, target_w * target_ch)
            THEN DataOutcome(TrimBothEnds(o.data, target_w * target_ch))
            ELSE o
         : o \in get_phoneme_data(tbl, bk, "EH", depth - 1)}
    ELSE LET cands == pick_random_variant(bk.phonemes, phoneme)
         IN  IF cands # {}
             THEN {normalize_wav(c, target_ch, target_w, target_r) : c \in cands}
             ELSE IF phoneme \in DOMAIN tbl
             THEN CombineSubs(tbl, bk, tbl[phoneme], depth - 1, <<>>)
             ELSE {NoneOutcome}

\* the loop over PHONEME_MAPPING[phoneme], combined_data so far being acc
CombineSubs(tbl, bk, subs, depth, acc) ==
    IF subs = <<>> THEN {IF DataLen(acc) > 0 THEN DataOutcome(acc) ELSE NoneOutcome}
    ELSE UNION {IF IsError(o) THEN {o}
                ELSE CombineSubs(tbl, bk, Tail(subs), depth,
                                 IF Truthy(o) THEN acc \o o.data ELSE acc)
                : o \in get_phoneme_data(tbl, bk, Head(subs), depth)}

(***************************************************************************)
(* G2P collaborator (g2p_en.G2p, external).  A raw label is                 *)
(* [letters, digits]: an ARPAbet symbol and its optional stress digit;      *)
(* noise the engine may emit (a space, an apostrophe) has letters = "".     *)
(* G2POutputs is the set of label sequences the engine is taken to return.  *)
(***************************************************************************)
Raw(letters, digits) == [letters |-> letters, digits |-> digits]
Noise == Raw("", "")
G2POutputs ==
    { <<Raw("HH", ""), Raw("AH", "0"), Raw("L", ""), Raw("OW", "1")>>,
      <<Raw("AH", "1"), Raw("M", "")>>,
      <<Raw("Y", ""), Noise, Raw("EH", "1"), Raw("S", "")>>,
      <<Raw("DH", ""), Raw("AH", "0")>>,
      <<Raw("OW", "1"), Noise>>,
      <<Noise>> }

IsAH0(p) == p.letters = "AH" /\ p.digits = "0"
\* re.match(r'[A-Z]+[0-9]*', p)
MatchesLabel(p) == p.letters # ""
\* re.sub(r'\d+', '', p)
StripDigits(p) == p.letters

\* main.py _get_phonemes: filter, then strip the stress digits
get_phonemes(raw) ==
    LET kept == SelectSeq(raw, MatchesLabel)
    IN  [k \in 1..Len(kept) |-> StripDigits(kept[k])]

\* main_CrossFading.py lines 113-119: strip the digits except of AH0, filter,
\* then replace a final AH / AE / AH0 by AA
LastPhonemeRule(ps) ==
    IF ps # <<>> /\ ps[Len(ps)] \in {"AH", "AE", "AH0"}
    THEN [ps EXCEPT ![Len(ps)] = "AA"]
    ELSE ps

valid_ps(raw) ==
    LET kept == SelectSeq(raw, MatchesLabel)
        clean == [k \in 1..Len(kept) |->
                    IF IsAH0(kept[k]) THEN "AH0" ELSE StripDigits(kept[k])]
    IN  LastPhonemeRule(clean)

(***************************************************************************)
(* Segments.  main_CrossFading.py keeps dicts with data, is_vowel,          *)
(* is_pause and, for phoneme segments only, phoneme ("" = key absent);      *)
(* main.py keeps the bare data, held here in the same record with the tags  *)
(* unset.                                                                  *)
(***************************************************************************)
Seg(data, v, p, ph) == [data |-> data, is_vowel |-> v, is_pause |-> p, phoneme |-> ph]
PauseSeg(ms) == Seg(Silence(PauseBytes(ms)), FALSE, TRUE, "")
Bare(data) == Seg(data, FALSE, FALSE, "")

Ok(segs) == [st |-> "ok", segs |-> segs]
Failed(e) == [st |-> e, segs |-> <<>>]

\* main_CrossFading.py lines 121-129: the loop over valid_ps
RECURSIVE phoneme_loop(_, _, _)
phoneme_loop(bk, ps, acc) ==
    IF ps = <<>> THEN {Ok(acc)}
    ELSE UNION {IF IsError(o) THEN {Failed(o.st)}
                ELSE phoneme_loop(bk, Tail(ps),
                        IF Truthy(o)
                        THEN Append(acc, Seg(o.data, is_vowel(Head(ps)), FALSE, Head(ps)))
                        ELSE acc)
                : o \in get_phoneme_data(PHONEME_MAPPING, bk, Head(ps), MaxDepth)}

\* main.py lines 171-176: the loop over phonemes
RECURSIVE plain_phoneme_loop(_, _, _)
plain_phoneme_loop(bk, ps, acc) ==
    IF ps = <<>> THEN {Ok(acc)}
    ELSE LET cands == pick_random_variant(bk.phonemes, Head(ps))
         IN  IF cands = {} THEN plain_phoneme_loop(bk, Tail(ps), acc)
             ELSE UNION {LET o == normalize_wav(c, target_ch, target_w, target_r)
                         IN  IF IsError(o) THEN {Failed(o.st)}
                             ELSE plain_phoneme_loop(bk, Tail(ps), Append(acc, Bare(o.data)))
                         : c \in cands}

WordPause == PauseSeg(word_pause_ms)
PlainWordPause == Bare(generate_silence(word_pause_ms, target_r, target_w, target_ch))

\* faulty variant: the two punctuation durations exchanged
PunctPauseMs_swapped(token) == IF IsTerminal(token) THEN comma_pause_ms ELSE terminal_pause_ms

\* duration of the pause a punctuation token stands for
PunctPauseMs(token) == IF IsTerminal(token) THEN terminal_pause_ms ELSE comma_pause_ms

\* what one iteration of the token loop of main_CrossFading.py appends
\* (lines 102-131): the set of outcomes over variant choice and G2P output
crossfade_token(bk, token) ==
    IF IsPunct(token) THEN {Ok(<<PauseSeg(PunctPauseMs(token))>>)}
    ELSE LET words == pick_word_variant(bk.words, token)
         IN  IF words # {}
             THEN {LET o == normalize_wav(c, target_ch, target_w, target_r)
                   IN  IF IsError(o) THEN Failed(o.st)
                       ELSE Ok(<<Seg(o.data, FALSE, FALSE, ""), WordPause>>)
                   : c \in words}
             ELSE UNION {{IF r.st = "ok" THEN Ok(Append(r.segs, WordPause)) ELSE r
                          : r \in phoneme_loop(bk, valid_ps(raw), <<>>)}
                         : raw \in G2POutputs}

\* what one iteration of the token loop of main.py appends (lines 158-178)
plain_token(bk, token) ==
    IF IsPunct(token)
    THEN {Ok(<<Bare(generate_silence(PunctPauseMs(token), target_r, target_w, target_ch))>>)}
    ELSE LET words == pick_word_variant(bk.words, token)
         IN  IF words # {}
             THEN {LET o == normalize_wav(c, target_ch, target_w, target_r)
                   IN  IF IsError(o) THEN Failed(o.st)
                       ELSE Ok(<<Bare(o.data), PlainWordPause>>)
                   : c \in words}
             ELSE UNION {{IF r.st = "ok" THEN Ok(Append(r.segs, PlainWordPause)) ELSE r
                          : r \in plain_phoneme_loop(bk, get_phonemes(raw), <<>>)}
                         : raw \in G2POutputs}

(***************************************************************************)
(* Crossfading (main_CrossFading.py).                                      *)
(***************************************************************************)
\* int(rate * self.fade_duration) * width
FadeSize(rate, width) == ((rate * fade_duration_ms) \div 1000) * width

ActualFade(current_data, next_data, rate, width) ==
    Min(FadeSize(rate, width), Min(DataLen(current_data), DataLen(next_data)))

\* faulty variant: the consumed head of next_data is not cut off
apply_crossfade_keep_head(current_data, next_data, rate, width) ==
    LET actual_fade == ActualFade(current_data, next_data, rate, width)
        curr_main == TakeBytes(current_data, DataLen(current_data) - actual_fade)
        num_frames == actual_fade \div width
        ramp_out == TakeBytes(DropBytes(current_data, DataLen(curr_main)), num_frames * width)
        ramp_in == TakeBytes(next_data, num_frames * width)
        mixed_fade == IF num_frames = 0 THEN <<>>
                      ELSE <<[src |-> "mix", lo |-> 0, hi |-> num_frames * width,
                              mix |-> <<ramp_out, ramp_in>>]>>
    IN  IF actual_fade <= 0 THEN <<current_data, next_data>>
        ELSE <<curr_main \o mixed_fade, next_data>>

\* faulty variant: the faded tail of current_data is not cut off before the blend
apply_crossfade_keep_tail(current_data, next_data, rate, width) ==
    LET actual_fade == ActualFade(current_data, next_data, rate, width)
        curr_main == TakeBytes(current_data, DataLen(current_data) - actual_fade)
        num_frames == actual_fade \div width
        ramp_out == TakeBytes(DropBytes(current_data, DataLen(curr_main)), num_frames * width)
        ramp_in == TakeBytes(next_data, num_frames * width)
        mixed_fade == IF num_frames = 0 THEN <<>>
                      ELSE <<[src |-> "mix", lo |-> 0, hi |-> num_frames * width,
                              mix |-> <<ramp_out, ramp_in>>]>>
    IN  IF actual_fade <= 0 THEN <<current_data, next_data>>
        ELSE <<current_data \o mixed_fade, DropBytes(next_data, actual_fade)>>

\* _apply_crossfade: <<faded current, leftover next>>
apply_crossfade(current_data, next_data, rate, width) ==
    LET actual_fade == ActualFade(current_data, next_data, rate, width)
        curr_main == TakeBytes(current_data, DataLen(current_data) - actual_fade)
        num_frames == actual_fade \div width
        ramp_out == TakeBytes(DropBytes(current_data, DataLen(curr_main)), num_frames * width)
        ramp_in == TakeBytes(next_data, num_frames * width)
        mixed_fade == IF num_frames = 0 THEN <<>>
                      ELSE <<[src |-> "mix", lo |-> 0, hi |-> num_frames * width,
                              mix |-> <<ramp_out, ramp_in>>]>>
    IN  IF actual_fade <= 0 THEN <<current_data, next_data>>
        ELSE <<curr_main \o mixed_fade, DropBytes(next_data, actual_fade)>>

\* faulty variant: the current segment is not tested for being a pause
can_fade_pause_blind(segs, k) ==
    /\ k + 1 <= Len(segs)
    /\ ~segs[k].is_vowel /\ segs[k + 1].is_vowel /\ ~segs[k + 1].is_pause

\* lines 137-149: whether the boundary after segment k (1-based) is faded
can_fade(segs, k) ==
    /\ k + 1 <= Len(segs)
    /\ LET curr_seg == segs[k]
           next_seg == segs[k + 1]
           curr_is_consonant == ~curr_seg.is_vowel /\ ~curr_seg.is_pause
       IN  curr_is_consonant /\ next_seg.is_vowel /\ ~next_seg.is_pause

\* b''.join(audio_segments)
RECURSIVE Join(_)
Join(segs) == IF segs = <<>> THEN <<>> ELSE Head(segs).data \o Join(Tail(segs))

(***************************************************************************)
(* Inputs of a render call.                                                *)
(***************************************************************************)
RECURSIVE SeqsUpTo(_, _)
SeqsUpTo(S, n) ==
    IF n = 0 THEN {<<>>}
    ELSE LET shorter == SeqsUpTo(S, n - 1)
         IN  shorter \cup {Append(s, x) : s \in {t \in shorter : Len(t) = n - 1}, x \in S}

Texts == SeqsUpTo(Alphabet, MaxTextLen)

Mono(id, n) == Clip(id, 1, 2, 44100, n, TRUE)
NoFiles == [words |-> {}, phonemes |-> {}]
\* words/H.wav only
BankHello == [words |-> {File(<<"H">>, 0, Mono("words/H.wav", 6000))}, phonemes |-> {}]
\* phoneme recordings of several lengths and formats, two variants of OW,
\* no recording of AH, DH or AE (resolved through the fallback table)
BankPhonemes ==
    [words |-> {},
     phonemes |-> {File("HH", 0, Mono("HH.wav", 1000)),
                   File("L", 0, Mono("L.wav", 3000)),
                   File("OW", 0, Mono("OW.wav", 1500)),
                   File("OW", 7, Clip("OW_7.wav", 2, 1, 22050, 2000, TRUE)),
                   File("EH", 0, Mono("EH.wav", 3)),
                   File("AA", 0, Mono("AA.wav", 2500)),
                   File("M", 0, Mono("M.wav", 4)),
                   File("D", 0, Mono("D.wav", 2205)),
                   File("S", 0, Mono("S.wav", 0))}]
\* a word recording under a lower-case name next to phoneme recordings
BankMixed ==
    [words |-> {File(<<"h">>, 0, Mono("words/h.wav", 5)),
                File(<<"h">>, 2, Mono("words/h_2.wav", 3000))},
     phonemes |-> {File("Y", 0, Mono("Y.wav", 2)),
                   File("EH", 0, Mono("EH.wav", 4000)),
                   File("S", 0, Mono("S.wav", 2300)),
                   File("AA", 0, Mono("AA.wav", 1))}]
\* a bank holding files that are no WAV containers
BankCorrupt ==
    [words |-> {File(<<"I">>, 0, Clip("words/I.wav", 1, 2, 44100, 0, FALSE))},
     phonemes |-> {File("HH", 0, Mono("HH.wav", 1000)),
                   File("L", 0, Clip("L.wav", 1, 2, 44100, 0, FALSE)),
                   File("OW", 0, Mono("OW.wav", 1500)),
                   File("EH", 0, Mono("EH.wav", 10))}]
VoiceBanks == {NoFiles, BankHello, BankPhonemes, BankMixed, BankCorrupt}

(***************************************************************************)
(* render_to_file, one action per loop iteration.                          *)
(***************************************************************************)
NoResolve == /\ table = PHONEME_MAPPING /\ rlabel = "" /\ result = NoneOutcome

Requests == 1..NReq
NoReader == [ino |-> 0, nbytes |-> 0, pos |-> 0, buf |-> <<>>, raw |-> 0]
\* no speak request in progress
NoSpeak ==
    /\ gui = "idle"
    /\ audio = [r \in Requests |-> 0]
    /\ wpc = [r \in Requests |-> "unborn"]
    /\ temp_path = 0
    /\ inodes = <<>>
    /\ wf = [r \in Requests |-> NoReader]
    /\ rdata = [r \in Requests |-> <<>>]
    /\ played = [r \in Requests |-> <<>>]
    /\ pa = [r \in Requests |-> "none"]
    /\ stream = [r \in Requests |-> "none"]
    /\ playback_list = <<>>
    /\ item = 1

Init ==
    /\ pipeline \in {"plain", "crossfade"}
    /\ text \in Texts
    /\ bank \in VoiceBanks
    /\ pc = "start"
    /\ tokens = <<>>
    /\ tk = 1
    /\ raw_segments = <<>>
    /\ i = 1
    /\ final_audio = <<>>
    /\ outcome = "running"
    /\ out_file = <<"absent">>
    /\ input_segments = <<>>
    /\ NoResolve
    /\ NoSpeak

\* line 98 / line 151
Start ==
    /\ pc = "start"
    /\ tokens' = Tokenize(text)
    /\ pc' = "tokens"
    /\ UNCHANGED speakvars
    /\ UNCHANGED playvars
    /\ UNCHANGED <<pipeline, text, bank, tk, raw_segments, i, final_audio, outcome,
                   out_file, input_segments, table, rlabel, result>>

token_outcomes(pl, bk, token) ==
    IF pl = "crossfade" THEN crossfade_token(bk, token) ELSE plain_token(bk, token)

\* one iteration of "for token in tokens"; an exception leaves the call
TokenStep ==
    /\ pc = "tokens"
    /\ tk <= Len(tokens)
    /\ \E r \in token_outcomes(pipeline, bank, tokens[tk]) :
          IF r.st = "ok"
          THEN /\ raw_segments' = raw_segments \o r.segs
               /\ tk' = tk + 1
               /\ UNCHANGED <<pc, outcome>>
          ELSE /\ pc' = "done"
               /\ outcome' = r.st
               /\ UNCHANGED <<raw_segments, tk>>
    /\ UNCHANGED speakvars
    /\ UNCHANGED playvars
    /\ UNCHANGED <<pipeline, text, bank, tokens, i, final_audio, out_file,
                   input_segments, table, rlabel, result>>

\* main.py lines 180-188
PlainFinish ==
    /\ pc = "tokens"
    /\ tk > Len(tokens)
    /\ pipeline = "plain"
    /\ pc' = "done"
    /\ IF raw_segments = <<>>
       THEN /\ outcome' = "nothing to render"
            /\ UNCHANGED <<final_audio, out_file>>
       ELSE /\ final_audio' = Join(raw_segments)
            /\ out_file' = <<"wav", Join(raw_segments)>>
            /\ outcome' = "written"
    /\ UNCHANGED speakvars
    /\ UNCHANGED playvars
    /\ UNCHANGED <<pipeline, text, bank, tokens, tk, raw_segments, i, input_segments, table, rlabel, result>>

\* main_CrossFading.py lines 133-134
BeginFade ==
    /\ pc = "tokens"
    /\ tk > Len(tokens)
    /\ pipeline = "crossfade"
    /\ pc' = "fade"
    /\ i' = 1
    /\ final_audio' = <<>>
    /\ input_segments' = raw_segments
    /\ UNCHANGED speakvars
    /\ UNCHANGED playvars
    /\ UNCHANGED <<pipeline, text, bank, tokens, tk, raw_segments, outcome, out_file,
                   table, rlabel, result>>

\* lines 135-156: one iteration of the crossfade pass
FadeStep ==
    /\ pc = "fade"
    /\ i <= Len(raw_segments)
    /\ IF can_fade(raw_segments, i)
       THEN LET r == apply_crossfade(raw_segments[i].data, raw_segments[i + 1].data,
                                     target_r, target_w)
            IN  /\ final_audio' = final_audio \o r[1]
                /\ raw_segments' = [raw_segments EXCEPT ![i + 1].data = r[2]]
       ELSE /\ final_audio' = final_audio \o raw_segments[i].data
            /\ UNCHANGED raw_segments
    /\ i' = i + 1
    /\ UNCHANGED speakvars
    /\ UNCHANGED playvars
    /\ UNCHANGED <<pipeline, text, bank, pc, tokens, tk, outcome, out_file,
                   input_segments, table, rlabel, result>>

\* lines 158-160
WriteFile ==
    /\ pc = "fade"
    /\ i > Len(raw_segments)
    /\ out_file' = <<"wav", final_audio>>
    /\ outcome' = "written"
    /\ pc' = "done"
    /\ UNCHANGED speakvars
    /\ UNCHANGED playvars
    /\ UNCHANGED <<pipeline, text, bank, tokens, tk, raw_segments, i, final_audio,
                   input_segments, table, rlabel, result>>

Next == Start \/ TokenStep \/ PlainFinish \/ BeginFade \/ FadeStep \/ WriteFile

Spec == Init /\ [][Next]_vars

(***************************************************************************)
(* The crossfade pass on its own (lines 133-160), over any tagged segment   *)
(* list.  Every segment's buffer has a name of its own, so that a byte of   *)
(* the output can be traced to the segment it came from.                    *)
(***************************************************************************)
SegName(k) == <<"seg1", "seg2", "seg3", "seg4", "seg5", "seg6">>[k]
Buf(k, n) == IF n = 0 THEN <<>> ELSE <<Chunk(SegName(k), 0, n)>>
SegChoices(k) ==
    {Seg(Buf(k, 882), FALSE, TRUE, "")}
    \cup {Seg(Buf(k, n), FALSE, FALSE, "") : n \in {0, 12}}
    \cup {Seg(Buf(k, n), FALSE, FALSE, "L") : n \in {2, 6, 6000}}
    \cup {Seg(Buf(k, n), TRUE, FALSE, "OW") : n \in {2, 6, 6000}}

RECURSIVE SegLists(_)
SegLists(n) ==
    IF n = 0 THEN {<<>>}
    ELSE LET shorter == SegLists(n - 1)
         IN  shorter \cup {Append(l, x) : l \in {t \in shorter : Len(t) = n - 1},
                                          x \in SegChoices(n)}

InitMix ==
    /\ pipeline = "crossfade"
    /\ text = <<>>
    /\ bank = NoFiles
    /\ pc = "fade"
    /\ tokens = <<>>
    /\ tk = 1
    /\ raw_segments \in SegLists(MaxSegs)
    /\ input_segments = raw_segments
    /\ i = 1
    /\ final_audio = <<>>
    /\ outcome = "running"
    /\ out_file = <<"absent">>
    /\ NoResolve
    /\ NoSpeak

NextMix == FadeStep \/ WriteFile

SpecMix == InitMix /\ [][NextMix]_vars

(***************************************************************************)
(* One phoneme resolution (_get_phoneme_data) for a fallback table, a       *)
(* voice bank and a label.                                                 *)
(***************************************************************************)
CyclicTable == [p \in {"X", "Y"} |-> IF p = "X" THEN <<"Y">> ELSE <<"X">>]
SelfTable == [p \in {"X", "TH"} |-> IF p = "X" THEN <<"D", "X">> ELSE <<"D">>]
Tables == {PHONEME_MAPPING, CyclicTable, SelfTable}
\* banks whose only recording is the vowel EH, of every short length
BankEH(n) == [words |-> {}, phonemes |-> {File("EH", 0, Mono("EH.wav", n))}]
\* EH.wav next to a variant in another format (2 frames at half the rate)
BankEHVariants ==
    [words |-> {},
     phonemes |-> {File("EH", 0, Mono("EH.wav", 2)),
                   File("EH", 3, Clip("EH_3.wav", 2, 1, 22050, 2, TRUE))}]
\* EH.wav is no WAV container
BankEHCorrupt ==
    [words |-> {},
     phonemes |-> {File("EH", 0, Clip("EH.wav", 1, 2, 44100, 0, FALSE))}]
ResolveBanks ==
    VoiceBanks \cup {BankEH(n) : n \in 0..MaxEHFrames}
               \cup {BankEHVariants, BankEHCorrupt}
Labels == (DOMAIN PHONEME_MAPPING) \cup Vowels
            \cup {"AH0", "HH", "L", "M", "D", "S", "Y", "CH", "X", "ZZ"}

InitResolve ==
    /\ pipeline = "crossfade"
    /\ text = <<>>
    /\ bank \in ResolveBanks
    /\ pc = "resolve"
    /\ tokens = <<>>
    /\ tk = 1
    /\ raw_segments = <<>>
    /\ input_segments = <<>>
    /\ i = 1
    /\ final_audio = <<>>
    /\ outcome = "running"
    /\ out_file = <<"absent">>
    /\ table \in Tables
    /\ rlabel \in Labels
    /\ result = NoneOutcome
    /\ NoSpeak

\* self._get_phoneme_data(p_clean, target_ch, target_w, target_r)
Resolve ==
    /\ pc = "resolve"
    /\ result' \in get_phoneme_data(table, bank, rlabel, MaxDepth)
    /\ pc' = "resolved"
    /\ UNCHANGED speakvars
    /\ UNCHANGED playvars
    /\ UNCHANGED <<pipeline, text, bank, tokens, tk, raw_segments, i, final_audio,
                   outcome, out_file, input_segments, table, rlabel>>

NextResolve == Resolve

SpecResolve == InitResolve /\ [][NextResolve]_vars

(***************************************************************************)
(* Speak requests (main_CrossFading.py): TTSGui.speak calls                 *)
(* get_pronunciation on the GUI thread, which renders into the file         *)
(* "temp_playback.wav" of the working directory and starts a thread running *)
(* play().  Files follow POSIX: a name refers to an inode, open handles     *)
(* keep reading the inode they opened, open(..., 'wb') empties the inode    *)
(* the name refers to.  A file is the 44-byte WAV header, which declares    *)
(* the length of the data, followed by the frame bytes written so far.      *)
(* Both file objects are buffered (io.BufferedWriter / io.BufferedReader    *)
(* with a buffer of one block).  The rendered audio of request r is         *)
(* audio[r] chunks of CHUNK frames, bytes 0.. of the buffer named           *)
(* ReqName(r).                                                             *)
(***************************************************************************)
\* bytes of the RIFF/fmt/data header wave.Wave_write puts before the frames
HeaderBytes == 44
\* buffer size of the file objects open() returns (the block size)
BufferSize == 4096
\* a write() reaches the file page by page
PageBytes == 4096
\* bytes readframes(self.CHUNK) asks for: mono frames of target_w bytes
ChunkBytes == CHUNK * target_w * target_ch

ReqName(r) == <<"req1", "req2", "req3", "req4">>[r]
Audio(r) == IF audio[r] = 0 THEN <<>> ELSE <<Chunk(ReqName(r), 0, audio[r] * ChunkBytes)>>
EmptyFile == [header |-> FALSE, declared |-> 0, frames |-> <<>>]

InitSpeak ==
    /\ pipeline = "crossfade"
    /\ text = <<>>
    /\ bank = NoFiles
    /\ pc = "idle"
    /\ tokens = <<>>
    /\ tk = 1
    /\ raw_segments = <<>>
    /\ input_segments = <<>>
    /\ i = 1
    /\ final_audio = <<>>
    /\ outcome = "running"
    /\ out_file = <<"absent">>
    /\ NoResolve
    /\ NoSpeak

\* get_pronunciation lines 163-164 up to wave.open(output_path, 'wb') of
\* render_to_file (line 158): the file is created, or emptied if it exists
SpeakBegin(r) ==
    /\ gui = "idle"
    /\ wpc[r] = "unborn"
    /\ \A q \in Requests : q < r => wpc[q] # "unborn"
    /\ \E n \in 0..MaxChunks : audio' = [audio EXCEPT ![r] = n]
    /\ IF temp_path = 0
       THEN /\ inodes' = Append(inodes, EmptyFile)
            /\ temp_path' = Len(inodes) + 1
            /\ wf' = [wf EXCEPT ![r] = [NoReader EXCEPT !.ino = Len(inodes) + 1]]
       ELSE /\ inodes' = [inodes EXCEPT ![temp_path] = EmptyFile]
            /\ wf' = [wf EXCEPT ![r] = [NoReader EXCEPT !.ino = temp_path]]
            /\ UNCHANGED temp_path
    /\ gui' = "rendering"
    /\ wpc' = [wpc EXCEPT ![r] = "rendering"]
    /\ UNCHANGED <<rdata, played, pa, stream>>
    /\ UNCHANGED rendervars
    /\ UNCHANGED playvars

\* render_to_file raises before it opens the output file (a clip that is no
\* WAV container): get_pronunciation ends with the exception, no thread
SpeakRenderRaises(r) ==
    /\ gui = "idle"
    /\ wpc[r] = "unborn"
    /\ \A q \in Requests : q < r => wpc[q] # "unborn"
    /\ wpc' = [wpc EXCEPT ![r] = "not started"]
    /\ UNCHANGED <<gui, audio, temp_path, inodes, wf, rdata, played, pa, stream>>
    /\ UNCHANGED rendervars
    /\ UNCHANGED playvars

\* line 160, wf.writeframes(final_audio), when header and frames do not fit
\* the writer's buffer together: the buffered header is flushed to the file
\* first.  It declares the length of all the frames.
SpeakWriteHeader(r) ==
    /\ gui = "rendering"
    /\ wpc[r] = "rendering"
    /\ HeaderBytes + DataLen(Audio(r)) > BufferSize
    /\ ~inodes[wf[r].ino].header
    /\ inodes' = [inodes EXCEPT ![wf[r].ino] =
                     [header |-> TRUE, declared |-> DataLen(Audio(r)), frames |-> <<>>]]
    /\ UNCHANGED <<gui, audio, wpc, temp_path, wf, rdata, played, pa, stream>>
    /\ UNCHANGED rendervars
    /\ UNCHANGED playvars

\* lines 159-160: the frames reach the file.  Header and frames that fit the
\* buffer are written together when the with block closes the file; longer
\* frames follow the header, and the file grows to the next page boundary
\* at a time while the write is under way.
SpeakWriteFrames(r) ==
    /\ gui = "rendering"
    /\ wpc[r] = "rendering"
    /\ LET f == inodes[wf[r].ino]
           len == DataLen(Audio(r))
           size == HeaderBytes + DataLen(f.frames)
           upto == Min(len, ((size \div PageBytes) + 1) * PageBytes - HeaderBytes)
       IN  IF HeaderBytes + len <= BufferSize
           THEN /\ inodes' = [inodes EXCEPT ![wf[r].ino] =
                                 [header |-> TRUE, declared |-> len, frames |-> Audio(r)]]
                /\ gui' = "written"
           ELSE /\ f.header
                /\ inodes' = [inodes EXCEPT ![wf[r].ino].frames = TakeBytes(Audio(r), upto)]
                /\ gui' = IF upto = len THEN "written" ELSE "rendering"
    /\ UNCHANGED <<audio, wpc, temp_path, wf, rdata, played, pa, stream>>
    /\ UNCHANGED rendervars
    /\ UNCHANGED playvars

\* line 175: threading.Thread(target=play).start(), render_to_file having
\* returned
SpeakStart(r) ==
    /\ gui = "written"
    /\ wpc[r] = "rendering"
    /\ wf' = [wf EXCEPT ![r] = NoReader]
    /\ gui' = "idle"
    /\ wpc' = [wpc EXCEPT ![r] = "exists"]
    /\ UNCHANGED <<audio, temp_path, inodes, rdata, played, pa, stream>>
    /\ UNCHANGED rendervars
    /\ UNCHANGED playvars

\* line 166: if not os.path.exists(temp_path): return
PlayExists(r) ==
    /\ wpc[r] = "exists"
    /\ wpc' = [wpc EXCEPT ![r] = IF temp_path = 0 THEN "done" ELSE "open"]
    /\ UNCHANGED <<gui, audio, temp_path, inodes, wf, rdata, played, pa, stream>>
    /\ UNCHANGED rendervars
    /\ UNCHANGED playvars

\* line 167: wf = wave.open(temp_path, 'rb'); FileNotFoundError when the
\* name is gone, EOFError when the file holds no header yet.  Reading the
\* header fills the reader's buffer with the first BufferSize bytes the
\* file holds at that moment: the header and the frames that follow it.
PlayOpen(r) ==
    /\ wpc[r] = "open"
    /\ IF temp_path = 0 \/ ~inodes[temp_path].header
       THEN /\ wpc' = [wpc EXCEPT ![r] = "crashed"]
            /\ UNCHANGED wf
       ELSE LET f == inodes[temp_path]
                got == TakeBytes(f.frames, BufferSize - HeaderBytes)
            IN  /\ wf' = [wf EXCEPT ![r] = [ino |-> temp_path,
                                            nbytes |-> f.declared,
                                            pos |-> 0,
                                            buf |-> got,
                                            raw |-> DataLen(got)]]
                /\ wpc' = [wpc EXCEPT ![r] = "pyaudio"]
    /\ UNCHANGED <<gui, audio, temp_path, inodes, rdata, played, pa, stream>>
    /\ UNCHANGED rendervars
    /\ UNCHANGED playvars

\* line 168: p = pyaudio.PyAudio()
PlayAcquire(r) ==
    /\ wpc[r] = "pyaudio"
    /\ pa' = [pa EXCEPT ![r] = "live"]
    /\ wpc' = [wpc EXCEPT ![r] = "stream"]
    /\ UNCHANGED <<gui, audio, temp_path, inodes, wf, rdata, played, stream>>
    /\ UNCHANGED rendervars
    /\ UNCHANGED playvars

\* line 169: stream = p.open(...); raises when the device cannot be opened
PlayStreamOpen(r) ==
    /\ wpc[r] = "stream"
    /\ \/ /\ stream' = [stream EXCEPT ![r] = "open"]
          /\ wpc' = [wpc EXCEPT ![r] = "read"]
       \/ /\ wpc' = [wpc EXCEPT ![r] = "crashed"]
          /\ UNCHANGED stream
    /\ UNCHANGED <<gui, audio, temp_path, inodes, wf, rdata, played, pa>>
    /\ UNCHANGED rendervars
    /\ UNCHANGED playvars

\* lines 170-171: data = wf.readframes(self.CHUNK) and the loop test.  The
\* reader asks for ChunkBytes, or for what the length declared by the header
\* leaves.  The bytes come from the reader's buffer, as they were when the
\* buffer was filled; only when the buffer runs out is the inode read again,
\* at the reader's offset raw, for up to BufferSize bytes of what it holds
\* now.  A read that meets the end of the file returns fewer bytes.
PlayRead(r) ==
    /\ wpc[r] = "read"
    /\ LET h == wf[r]
           need == Min(ChunkBytes, h.nbytes - h.pos)
           have == DataLen(h.buf)
           got == TakeBytes(DropBytes(inodes[h.ino].frames, h.raw), BufferSize)
           take == Min(need - have, DataLen(got))
           d == h.buf \o TakeBytes(got, take)
       IN  IF need = 0
           THEN /\ rdata' = [rdata EXCEPT ![r] = <<>>]
                /\ wpc' = [wpc EXCEPT ![r] = "release"]
                /\ UNCHANGED wf
           ELSE IF have >= need
           THEN /\ rdata' = [rdata EXCEPT ![r] = TakeBytes(h.buf, need)]
                /\ wf' = [wf EXCEPT ![r].pos = h.pos + need,
                                    ![r].buf = DropBytes(h.buf, need)]
                /\ wpc' = [wpc EXCEPT ![r] = "write"]
           ELSE /\ rdata' = [rdata EXCEPT ![r] = d]
                /\ wf' = [wf EXCEPT ![r].pos = h.pos + DataLen(d),
                                    ![r].buf = DropBytes(got, take),
                                    ![r].raw = h.raw + DataLen(got)]
                /\ wpc' = [wpc EXCEPT ![r] = IF d = <<>> THEN "release" ELSE "write"]
    /\ UNCHANGED <<gui, audio, temp_path, inodes, played, pa, stream>>
    /\ UNCHANGED rendervars
    /\ UNCHANGED playvars

\* line 171: stream.write(data); raises when the device fails
PlayWrite(r) ==
    /\ wpc[r] = "write"
    /\ \/ /\ played' = [played EXCEPT ![r] = played[r] \o rdata[r]]
          /\ wpc' = [wpc EXCEPT ![r] = "read"]
       \/ /\ wpc' = [wpc EXCEPT ![r] = "crashed"]
          /\ UNCHANGED played
    /\ UNCHANGED <<gui, audio, temp_path, inodes, wf, rdata, pa, stream>>
    /\ UNCHANGED rendervars
    /\ UNCHANGED playvars

\* line 172: stream.stop_stream(); stream.close(); p.terminate(); wf.close()
PlayRelease(r) ==
    /\ wpc[r] = "release"
    /\ stream' = [stream EXCEPT ![r] = "closed"]
    /\ pa' = [pa EXCEPT ![r] = "terminated"]
    /\ wf' = [wf EXCEPT ![r] = NoReader]
    /\ wpc' = [wpc EXCEPT ![r] = "remove"]
    /\ UNCHANGED <<gui, audio, temp_path, inodes, rdata, played>>
    /\ UNCHANGED rendervars
    /\ UNCHANGED playvars

\* lines 173-174: try: os.remove(temp_path) / except: pass
PlayRemove(r) ==
    /\ wpc[r] = "remove"
    /\ temp_path' = 0
    /\ wpc' = [wpc EXCEPT ![r] = "done"]
    /\ UNCHANGED <<gui, audio, inodes, wf, rdata, played, pa, stream>>
    /\ UNCHANGED rendervars
    /\ UNCHANGED playvars

NextSpeak ==
    \E r \in Requests :
        \/ SpeakBegin(r) \/ SpeakRenderRaises(r)
        \/ SpeakWriteHeader(r) \/ SpeakWriteFrames(r) \/ SpeakStart(r)
        \/ PlayExists(r) \/ PlayOpen(r) \/ PlayAcquire(r) \/ PlayStreamOpen(r)
        \/ PlayRead(r) \/ PlayWrite(r) \/ PlayRelease(r) \/ PlayRemove(r)

SpecSpeak == InitSpeak /\ [][NextSpeak]_vars

(***************************************************************************)
(* Live playback of main.py: get_pronunciation builds playback_list on the  *)
(* calling thread and starts a thread running _play_sequence (worker 1).    *)
(***************************************************************************)
NoClip == Clip("", 0, 0, 0, 0, FALSE)
SilenceItem(ms) == [type |-> "silence", dur |-> ms, clip |-> NoClip]
FileItem(c) == [type |-> "file", dur |-> 0, clip |-> c]

\* main.py lines 100-105: the files of the phonemes that have one
RECURSIVE phoneme_items(_, _)
phoneme_items(bk, ps) ==
    IF ps = <<>> THEN {<<>>}
    ELSE LET cands == pick_random_variant(bk.phonemes, Head(ps))
             rest == phoneme_items(bk, Tail(ps))
         IN  IF cands = {} THEN rest
             ELSE {<<FileItem(c)>> \o l : c \in cands, l \in rest}

\* main.py lines 86-107: what one token appends to playback_list
playback_token(bk, token) ==
    IF IsTerminal(token) THEN {<<SilenceItem(period_pause_ms)>>}
    ELSE IF IsComma(token) THEN {<<SilenceItem(comma_pause_ms)>>}
    ELSE LET words == pick_word_variant(bk.words, token)
         IN  IF words # {}
             THEN {<<FileItem(c), SilenceItem(word_pause_ms)>> : c \in words}
             ELSE UNION {{l \o <<SilenceItem(word_pause_ms)>>
                          : l \in phoneme_items(bk, get_phonemes(raw))}
                         : raw \in G2POutputs}

RECURSIVE playback_lists(_, _)
playback_lists(bk, toks) ==
    IF toks = <<>> THEN {<<>>}
    ELSE {a \o b : a \in playback_token(bk, Head(toks)),
                   b \in playback_lists(bk, Tail(toks))}

InitPlay ==
    /\ pipeline = "plain"
    /\ text \in Texts
    /\ bank \in VoiceBanks
    /\ pc = "idle"
    /\ tokens = <<>>
    /\ tk = 1
    /\ raw_segments = <<>>
    /\ input_segments = <<>>
    /\ i = 1
    /\ final_audio = <<>>
    /\ outcome = "running"
    /\ out_file = <<"absent">>
    /\ NoResolve
    /\ NoSpeak

\* main.py get_pronunciation, lines 82-109
GetPronunciation ==
    /\ wpc[1] = "unborn"
    /\ tokens' = Tokenize(text)
    /\ playback_list' \in playback_lists(bank, Tokenize(text))
    /\ item' = 1
    /\ wpc' = [wpc EXCEPT ![1] = "pyaudio"]
    /\ UNCHANGED <<pipeline, text, bank, pc, tk, raw_segments, i, final_audio,
                   outcome, out_file, input_segments, table, rlabel, result>>
    /\ UNCHANGED <<gui, audio, temp_path, inodes, wf, rdata, played, pa, stream>>

\* _play_sequence line 112: p = pyaudio.PyAudio()
SeqAcquire ==
    /\ wpc[1] = "pyaudio"
    /\ pa' = [pa EXCEPT ![1] = "live"]
    /\ wpc' = [wpc EXCEPT ![1] = "stream"]
    /\ UNCHANGED <<gui, audio, temp_path, inodes, wf, rdata, played, stream>>
    /\ UNCHANGED rendervars
    /\ UNCHANGED playvars

\* lines 117-120: stream = p.open(...); raises when the device cannot be opened
SeqStreamOpen ==
    /\ wpc[1] = "stream"
    /\ \/ /\ stream' = [stream EXCEPT ![1] = "open"]
          /\ wpc' = [wpc EXCEPT ![1] = "items"]
       \/ /\ wpc' = [wpc EXCEPT ![1] = "crashed"]
          /\ UNCHANGED stream
    /\ UNCHANGED <<gui, audio, temp_path, inodes, wf, rdata, played, pa>>
    /\ UNCHANGED rendervars
    /\ UNCHANGED playvars

\* lines 122-143: one item; whatever the clip read or the stream write
\* raises is caught and the loop goes on
SeqItem ==
    /\ wpc[1] = "items"
    /\ item <= Len(playback_list)
    /\ LET it == playback_list[item]
           o == normalize_wav(it.clip, target_ch, target_w, target_r)
       IN  IF it.type = "silence" \/ IsError(o)
           THEN UNCHANGED played
           ELSE \/ played' = [played EXCEPT ![1] = played[1] \o o.data]
                \/ UNCHANGED played
    /\ item' = item + 1
    /\ UNCHANGED playback_list
    /\ UNCHANGED <<gui, audio, wpc, temp_path, inodes, wf, rdata, pa, stream>>
    /\ UNCHANGED rendervars

\* lines 145-147: stream.stop_stream(); stream.close(); p.terminate()
SeqRelease ==
    /\ wpc[1] = "items"
    /\ item > Len(playback_list)
    /\ stream' = [stream EXCEPT ![1] = "closed"]
    /\ pa' = [pa EXCEPT ![1] = "terminated"]
    /\ wpc' = [wpc EXCEPT ![1] = "done"]
    /\ UNCHANGED <<gui, audio, temp_path, inodes, wf, rdata, played>>
    /\ UNCHANGED rendervars
    /\ UNCHANGED playvars

NextPlay == GetPronunciation \/ SeqAcquire \/ SeqStreamOpen \/ SeqItem \/ SeqRelease

SpecPlay == InitPlay /\ [][NextPlay]_vars

(***************************************************************************)
(* Vocabulary of the properties.                                           *)
(***************************************************************************)
\* a segment that is a stretch of silence
IsSilence(seg) ==
    /\ seg.data # <<>>
    /\ \A k \in 1..Len(seg.data) : seg.data[k].src = "silence"

\* a segment carrying a word or phoneme recording
IsPlayable(seg) ==
    \/ seg.phoneme # ""
    \/ \E k \in 1..Len(seg.data) :
          seg.data[k].src # "silence" /\ seg.data[k].hi > seg.data[k].lo

\* indices of the silence segments of segs, in order
PauseIdx(segs) ==
    SelectSeq([k \in 1..Len(segs) |-> k], LAMBDA k : IsSilence(segs[k]))

WordClipIds == {f.clip.id : f \in bank.words}

\* the eligibility rule of the crossfade pass as the specification words it:
\* segment k is a resolved phoneme classified consonant, segment k+1 is a
\* non-pause segment classified vowel
Eligible(segs, k) ==
    /\ k + 1 <= Len(segs)
    /\ segs[k].phoneme # "" /\ ~segs[k].is_vowel /\ ~segs[k].is_pause
    /\ segs[k + 1].is_vowel /\ ~segs[k + 1].is_pause

MixChunks(d) == {k \in 1..Len(d) : d[k].src = "mix"}

RECURSIVE SumLen(_)
SumLen(segs) == IF segs = <<>> THEN 0 ELSE DataLen(Head(segs).data) + SumLen(Tail(segs))

RECURSIVE SumOver(_, _)
SumOver(S, f) ==
    IF S = {} THEN 0
    ELSE LET x == CHOOSE y \in S : TRUE IN f[x] + SumOver(S \ {x}, f)

Finished == pc = "done" /\ outcome \in {"written", "nothing to render"}

(***************************************************************************)
(* C1.  A render whose tokens produce no playable (word or phoneme)         *)
(* segment ends in the "nothing to render" outcome and leaves the output    *)
(* file uncreated.                                                         *)
(***************************************************************************)
C1_NothingToRender ==
    (Finished /\ \A k \in 1..Len(raw_segments) : ~IsPlayable(raw_segments[k]))
        => (outcome = "nothing to render" /\ out_file = <<"absent">>)

(***************************************************************************)
(* C2.  The crossfade pass blends the boundary after segment k exactly when *)
(* segment k is a resolved consonant phoneme and segment k+1 a non-pause    *)
(* vowel: after the first i-1 iterations final_audio holds one blended      *)
(* window per eligible boundary k < i, in order, and every blended window   *)
(* is made of phoneme audio only (no silence, no word recording).           *)
(***************************************************************************)
C2_BlendIffEligible ==
    (pipeline = "crossfade" /\ pc \in {"fade", "done"} /\ outcome \in {"running", "written"})
        => LET elig == {k \in 1..(i - 1) : Eligible(input_segments, k)}
               mixes == MixChunks(final_audio)
           IN  /\ Cardinality(mixes) = Cardinality(elig)
               /\ \A k \in 1..(i - 1) :
                     Eligible(input_segments, k) <=>
                        \E m \in mixes :
                           /\ input_segments[k].data # <<>>
                           /\ final_audio[m].mix[1] # <<>>
                           /\ final_audio[m].mix[1][1].src = input_segments[k].data[1].src
                           /\ final_audio[m].mix[2] = TakeBytes(input_segments[k + 1].data,
                                                                final_audio[m].hi)
               /\ \A m \in mixes : \A side \in 1..2 :
                     \A c \in 1..Len(final_audio[m].mix[side]) :
                        /\ final_audio[m].mix[side][c].src # "silence"
                        /\ final_audio[m].mix[side][c].src \notin WordClipIds

C2_Witness ==
    /\ pipeline = "crossfade" /\ pc = "done" /\ outcome = "written"
    /\ Cardinality(MixChunks(final_audio)) >= 1
    /\ \E k \in 1..Len(input_segments) :
          input_segments[k].phoneme = "" /\ ~input_segments[k].is_pause
    /\ \E k \in 1..(Len(input_segments) - 1) :
          /\ input_segments[k].phoneme # "" /\ input_segments[k + 1].phoneme # ""
          /\ ~Eligible(input_segments, k)

(***************************************************************************)
(* C3.  A resolved clip that is no WAV container is skipped: the render     *)
(* call still completes and the parse failure does not leave it as an       *)
(* exception.                                                              *)
(***************************************************************************)
C3_CorruptClipSkipped == pc = "done" => outcome \in {"written", "nothing to render"}

(***************************************************************************)
(* C4.  Overlapping speak requests share no mutable state: each request's   *)
(* worker plays exactly the complete audio its own render produced, under   *)
(* every interleaving.                                                     *)
(***************************************************************************)
\* the same bytes with neighbouring stretches of one buffer joined
RECURSIVE Coalesce(_)
Coalesce(d) ==
    IF Len(d) < 2 THEN d
    ELSE LET a == d[1]
             b == d[2]
         IN  IF a.src = b.src /\ a.hi = b.lo
             THEN Coalesce(<<[a EXCEPT !.hi = b.hi]>> \o SubSeq(d, 3, Len(d)))
             ELSE <<a>> \o Coalesce(Tail(d))

C4_PlaysOwnAudio ==
    \A r \in Requests : wpc[r] = "done" => Coalesce(played[r]) = Audio(r)

(***************************************************************************)
(* C5.  A playback worker that has acquired the output device has stopped   *)
(* and closed the stream and released the device on every path by which it  *)
(* ends, exceptions included.                                              *)
(***************************************************************************)
C5_DeviceReleased ==
    \A r \in Requests :
        wpc[r] \in {"done", "crashed"} =>
            (pa[r] \in {"none", "terminated"} /\ stream[r] \in {"none", "closed"})

(***************************************************************************)
(* C6.  Length of the crossfade pass output: each eligible boundary k       *)
(* removes exactly min(fade window, len(segment k), len(segment k+1))       *)
(* bytes, the fade window being int(44100 * 0.05) * 2 = 4410 bytes; so the  *)
(* output is at most the sum of the input lengths and at least that sum     *)
(* minus 4410 per eligible boundary, and with no eligible boundary it is    *)
(* the exact concatenation of the inputs.                                   *)
(***************************************************************************)
Removed(segs, k) == Min(4410, Min(DataLen(segs[k].data), DataLen(segs[k + 1].data)))

C6_OutputLength ==
    (pipeline = "crossfade" /\ pc \in {"fade", "done"} /\ outcome \in {"running", "written"})
        => LET n == Len(input_segments)
               elig == {k \in 1..n : Eligible(input_segments, k)}
               done == {k \in elig : k < i}
               total == SumLen(input_segments)
               pending == SumLen(SubSeq(raw_segments, i, n))
               out == DataLen(final_audio) + pending
           IN  /\ out = total - SumOver(done, [k \in done |-> Removed(input_segments, k)])
               /\ out <= total
               /\ out >= total - Cardinality(done) * 4410
               /\ (i > n /\ elig = {}) => final_audio = Join(input_segments)

C6_Witness ==
    /\ pipeline = "crossfade" /\ pc = "done" /\ outcome = "written"
    /\ \E k \in 1..Len(input_segments) :
          /\ Eligible(input_segments, k)
          /\ Removed(input_segments, k) = DataLen(input_segments[k + 1].data)
          /\ Removed(input_segments, k) < 4410
    /\ \E k \in 1..Len(input_segments) :
          /\ Eligible(input_segments, k)
          /\ Removed(input_segments, k) = 4410

(***************************************************************************)
(* C7.  The segment list follows token order.  Reading the list as groups   *)
(* each closed by a silence segment, group k belongs to token k: a word     *)
(* token gives its speech segments followed by one 10 ms pause (882 bytes), *)
(* and when a word recording exists the speech is that single recording     *)
(* and nothing from the phoneme path; a terminal token gives no speech and  *)
(* one 500 ms pause (44100 bytes); a comma or semicolon gives no speech and *)
(* one 250 ms pause (22050 bytes).  With only words/H.wav in the bank the   *)
(* text "h." is written as [H.wav][10 ms][500 ms], unmodified.              *)
(***************************************************************************)
GroupOk(segs, P, k, token) ==
    LET from == IF k = 1 THEN 1 ELSE P[k - 1] + 1
        speech == SubSeq(segs, from, P[k] - 1)
        pause == segs[P[k]]
        words == pick_word_variant(bank.words, token)
    IN  IF IsTerminal(token) THEN speech = <<>> /\ pause.data = <<Chunk("silence", 0, 44100)>>
        ELSE IF IsComma(token) THEN speech = <<>> /\ pause.data = <<Chunk("silence", 0, 22050)>>
        ELSE /\ pause.data = <<Chunk("silence", 0, 882)>>
             /\ words # {} =>
                   /\ Len(speech) = 1
                   /\ speech[1].phoneme = ""
                   /\ \E c \in words :
                         speech[1].data = normalize_wav(c, 1, 2, 44100).data
             /\ words = {} =>
                   \A s \in 1..Len(speech) :
                      /\ pipeline = "crossfade" => speech[s].phoneme # ""
                      /\ \A c \in 1..Len(speech[s].data) :
                            speech[s].data[c].src \notin WordClipIds

C7_TokenOrder ==
    /\ pc = "tokens" =>
          LET P == PauseIdx(raw_segments)
          IN  /\ Len(P) = tk - 1
              /\ IF tk = 1 THEN raw_segments = <<>> ELSE P[tk - 1] = Len(raw_segments)
              /\ \A k \in 1..(tk - 1) : GroupOk(raw_segments, P, k, tokens[k])
    /\ (Finished /\ text = <<"h", ".">> /\ bank = BankHello) =>
          out_file = <<"wav", <<Chunk("words/H.wav", 0, 12000),
                                Chunk("silence", 0, 882),
                                Chunk("silence", 0, 44100)>>>>

C7_Witness ==
    /\ Finished /\ pipeline = "crossfade" /\ text = <<"h", ".">> /\ bank = BankHello
    /\ out_file # <<"absent">>

C7_WitnessTokens ==
    /\ pc = "tokens" /\ tk = 4 /\ Len(tokens) = 3
    /\ \E k \in 1..3 : IsComma(tokens[k])
    /\ \E k \in 1..3 : IsTerminal(tokens[k])
    /\ \E k \in 1..3 : ~IsPunct(tokens[k]) /\ pick_word_variant(bank.words, tokens[k]) = {}
    /\ Len(raw_segments) > 4

(***************************************************************************)
(* C8.  When a comma or semicolon token directly follows a word token, the  *)
(* 250 ms pause (22050 bytes) is the segment right after the segments the   *)
(* word token contributed (its speech and its closing 10 ms pause), and it  *)
(* precedes every segment of the tokens after the comma.                    *)
(***************************************************************************)
C8_CommaPauseAfterWord ==
    pc = "tokens" =>
       \A k \in 1..(tk - 2) :
          (~IsPunct(tokens[k]) /\ IsComma(tokens[k + 1])) =>
             LET P == PauseIdx(raw_segments)
                 e == P[k]
             IN  /\ raw_segments[e].data = <<Chunk("silence", 0, 882)>>
                 /\ \A j \in (IF k = 1 THEN 1 ELSE P[k - 1] + 1)..(e - 1) :
                       ~IsSilence(raw_segments[j])
                 /\ e + 1 <= Len(raw_segments)
                 /\ raw_segments[e + 1].data = <<Chunk("silence", 0, 22050)>>
                 /\ P[k + 1] = e + 1
                 /\ (k + 2 <= tk - 1) => P[k + 2] > e + 1

C8_Witness ==
    /\ pc = "tokens" /\ tk = 4 /\ Len(tokens) = 3
    /\ ~IsPunct(tokens[1]) /\ IsComma(tokens[2]) /\ ~IsPunct(tokens[3])
    /\ IsPlayable(raw_segments[1])
    /\ Len(raw_segments) >= 5

(***************************************************************************)
(* C9.  Resolving a label terminates for every fallback table and bank:     *)
(* a recursion that comes back to a label under resolution fails closed     *)
(* (returns none) instead of recursing until the interpreter gives up.      *)
(***************************************************************************)
C9_ResolutionFailsClosed == pc = "resolved" => result.st # "RecursionError"

(***************************************************************************)
(* C10.  In one crossfade pass a segment loses its head at most once, to    *)
(* the fade with its immediate predecessor, and its tail is blended at most *)
(* once, with its immediate successor; a segment the pass has gone past is  *)
(* never changed again; and no byte of a segment reaches the output twice.  *)
(***************************************************************************)
\* the pieces of segment buffers the output is made of, blended ones included
RECURSIVE Pieces(_)
Pieces(d) ==
    IF d = <<>> THEN <<>>
    ELSE (IF Head(d).src = "mix" THEN Head(d).mix[1] \o Head(d).mix[2] ELSE <<Head(d)>>)
         \o Pieces(Tail(d))

SegOf(src) == CHOOSE k \in 1..6 : SegName(k) = src

C10_SingleForwardPass ==
    (pc \in {"fade", "done"}) =>
        LET n == Len(input_segments)
            out == Pieces(final_audio)
            mixes == MixChunks(final_audio)
            \* bytes segment k has lost from its head so far
            lost(k) == DataLen(input_segments[k].data) - DataLen(raw_segments[k].data)
        IN  /\ Len(raw_segments) = n
            /\ \A k \in 1..n :
                  /\ raw_segments[k].data = DropBytes(input_segments[k].data, lost(k))
                  /\ lost(k) > 0 =>
                        /\ k > 1 /\ k - 1 < i
                        /\ Cardinality({m \in mixes :
                              final_audio[m].mix[2] =
                                 TakeBytes(input_segments[k].data, lost(k))}) = 1
                  /\ k > i => lost(k) = 0
            /\ \A m \in mixes :
                  LET tail == final_audio[m].mix[1]
                      head == final_audio[m].mix[2]
                  IN  /\ Len(tail) = 1 /\ Len(head) = 1
                      /\ SegOf(head[1].src) = SegOf(tail[1].src) + 1
                      /\ tail[1].hi = DataLen(input_segments[SegOf(tail[1].src)].data)
                      /\ head[1].lo = 0
                      /\ \A m2 \in mixes :
                            (final_audio[m2].mix[1][1].src = tail[1].src
                               \/ final_audio[m2].mix[2][1].src = head[1].src) => m2 = m
            /\ \A a \in 1..Len(out) : \A b \in 1..Len(out) :
                  (a # b /\ out[a].src = out[b].src) =>
                      (out[a].hi <= out[b].lo \/ out[b].hi <= out[a].lo)

C10_Witness ==
    /\ pc = "done"
    /\ Cardinality(MixChunks(final_audio)) = 2
    /\ \E k \in 1..Len(raw_segments) :
          /\ raw_segments[k].data # <<>>
          /\ raw_segments[k].data # input_segments[k].data
    /\ \E k \in 1..Len(raw_segments) :
          raw_segments[k].data = <<>> /\ input_segments[k].data # <<>>

(***************************************************************************)
(* C11.  For every voice bank and every label other than AH0, resolving     *)
(* the label with the program's fallback table returns one of the label's   *)
(* own recordings (normalized) whenever the bank has one; otherwise, when   *)
(* the label has a fallback entry, the concatenation in table order of the  *)
(* resolved audio of the substitutes that resolve, and none when no         *)
(* substitute resolves; otherwise none.  No case raises.                    *)
(***************************************************************************)
\* the audio a recording holds once brought to the target format
RecordingAudio(clip) ==
    IF NormalizedLen(clip, target_w, target_r) = 0 THEN <<>>
    ELSE <<Chunk(clip.id, 0, NormalizedLen(clip, target_w, target_r))>>

\* the results the claim allows for a label: own recording first, else the
\* fallback entry's substitutes in table order, else none
RECURSIVE Allowed(_, _)
RECURSIVE AllowedConcat(_, _)
Allowed(bk, label) ==
    LET own == {f.clip : f \in {g \in bk.phonemes : g.stem = label}}
    IN  IF own # {} THEN {DataOutcome(RecordingAudio(c)) : c \in own}
        ELSE IF label \in DOMAIN PHONEME_MAPPING
        THEN {IF d = <<>> THEN NoneOutcome ELSE DataOutcome(d)
              : d \in AllowedConcat(bk, PHONEME_MAPPING[label])}
        ELSE {NoneOutcome}

AllowedConcat(bk, subs) ==
    IF subs = <<>> THEN {<<>>}
    ELSE {a.data \o b : a \in Allowed(bk, Head(subs)),
                        b \in AllowedConcat(bk, Tail(subs))}

C11_FallbackResolution ==
    (pc = "resolved" /\ table = PHONEME_MAPPING /\ rlabel # "AH0") =>
        /\ ~IsError(result)
        /\ result \in Allowed(bank, rlabel)

(***************************************************************************)
(* C12.  Resolving AH0 resolves the neighbor vowel EH.  As the claim has    *)
(* it: the neighbor's audio comes back with one frame width cut from each   *)
(* end only if what is left after the cut is longer than the trim amount    *)
(* (one frame width, or the two cut in all), for every other length it      *)
(* comes back untrimmed, and none comes back when the neighbor resolves to  *)
(* none.                                                                    *)
(***************************************************************************)
FrameWidth == target_w * target_ch

\* the results of resolving the neighbor vowel
NeighborOutcomes == get_phoneme_data(PHONEME_MAPPING, bank, "EH", MaxDepth)

\* audio with one frame width cut from each end of a single recording
CutEnds(d) == <<[d[1] EXCEPT !.lo = d[1].lo + FrameWidth, !.hi = d[1].hi - FrameWidth]>>

C12_TrimOnlyIfResultLonger ==
    (pc = "resolved" /\ table = PHONEME_MAPPING /\ rlabel = "AH0") =>
        \E o \in NeighborOutcomes :
            \/ IsError(o)
            \/ o.st = "none" /\ result = NoneOutcome
            \/ /\ o.st = "data"
               /\ \E amount \in {FrameWidth, 2 * FrameWidth} :
                     IF DataLen(o.data) - 2 * FrameWidth > amount
                     THEN result = DataOutcome(CutEnds(o.data))
                     ELSE result = o

(***************************************************************************)
(* C12, amended.  The neighbor's audio comes back with one frame width cut  *)
(* from each end exactly when it is longer than the two frame widths cut,   *)
(* that is when something is left after the cut; in every other case the    *)
(* neighbor's result comes back as it is: its audio untrimmed, none when    *)
(* the neighbor resolves to none, and the exception when reading the        *)
(* neighbor's recording raises.                                             *)
(***************************************************************************)
C12_TrimIfLongerThanCut ==
    (pc = "resolved" /\ table = PHONEME_MAPPING /\ rlabel = "AH0") =>
        \E o \in NeighborOutcomes :
            IF o.st = "data" /\ DataLen(o.data) > 2 * FrameWidth
            THEN /\ result = DataOutcome(CutEnds(o.data))
                 /\ DataLen(result.data) = DataLen(o.data) - 2 * FrameWidth
            ELSE result = o

\* a three-frame EH recording comes back as its middle frame
C12_Witness ==
    /\ pc = "resolved" /\ table = PHONEME_MAPPING /\ rlabel = "AH0"
    /\ bank = BankEH(3)
    /\ result = DataOutcome(<<Chunk("EH.wav", 2, 4)>>)

====
